---- MODULE Spec2Model ----
(***************************************************************************)
(* State-machine model of treescope's IPython integration                  *)
(* (src/treescope/_internal/api/ipython_integration.py): the formatter     *)
(* dispatch policy installed by register_as_default, the host-requiring    *)
(* entry points, and the %%autovisualize / %%with cell magics.             *)
(* Collaborators whose code lives in other modules of the package          *)
(* (treescope.context, treescope.lowering, default_renderer) are modelled  *)
(* from their documented contract.                                         *)
(***************************************************************************)
EXTENDS Naturals, Integers, Sequences, FiniteSets, TLC

\* ---------------------------------------------------------------- bounds
MaxLeaves == 2       \* subtrees of a displayed value
MaxFragments == 1    \* streamed fragments kept per session
MaxDepth == 2        \* nesting depth of cell magics

VARIABLES
  host,        \* TRUE iff `IPython is not None`
  formatters,  \* display_formatter.formatters: MIME keys in dict order
  policy,      \* the text/html formatter registered for `object`
  textByName,  \* text/plain formatter registered for jaxlib ArrayImpl
  magics,      \* magics classes registered with the shell
  ctx,         \* the two ContextualValues: permanent value + override stack
  frames,      \* call stack of running cell magics
  out,         \* what _render_for_ipython did and returned, until the host
               \* has taken the return value
  fragments,   \* fragments emitted by the streaming pipeline
  call         \* the most recent entry-point, command or display call and
               \* how it ended

vars == <<host, formatters, policy, textByName, magics, ctx, frames, out,
          fragments, call>>

\* ------------------------------------------------------- displayed values
\* What the policy can observe of a value: the four probed methods, whether
\* it is an IPython DisplayObject, whether its own methods (_repr_html_,
\* __treescope_root_repr__) raise when called, and how each of its subtrees
\* behaves when the engine builds it.
SubtreeKinds == {"ok", "fail", "defer"}

SeqsUpTo(S, n) == UNION {[1..k -> S] : k \in 0..n}

Values ==
  {v \in [html: BOOLEAN, pretty: BOOLEAN, root: BOOLEAN, sub: BOOLEAN,
          disp: BOOLEAN, raises: BOOLEAN,
          subtrees: SeqsUpTo(SubtreeKinds, MaxLeaves)] :
     v.raises => (v.html \/ v.root)}

\* Values without any of the probed capabilities.
PlainValues ==
  {v \in Values : ~v.html /\ ~v.pretty /\ ~v.root /\ ~v.sub /\ ~v.disp
                  /\ ~v.raises}

\* object_inspection.safely_get_real_method(value, name): truthy iff the
\* value really defines the method.
safely_get_real_method(v, name) ==
  CASE name = "_repr_html_" -> v.html
    [] name = "_repr_pretty_" -> v.pretty
    [] name = "__treescope_repr__" -> v.sub
    [] name = "__treescope_root_repr__" -> v.root


\* ------------------------------------------- collaborators of the policy
\* default_renderer.build_foldable_representation(value, ignore_exceptions)
\* wrapped by rendering_parts.build_full_line_with_annotations: one node per
\* subtree.  A failing subtree becomes an inline error marker when failures
\* are tolerated and aborts the build otherwise; a deferrable leaf becomes a
\* placeholder only while a deferred-rendering collection is open.
NodeOf(kind, collecting) ==
  CASE kind = "ok" -> "rendered"
    [] kind = "fail" -> "error"
    [] kind = "defer" -> IF collecting THEN "placeholder" ELSE "rendered"

build_foldable_representation(v, ignore_exceptions, collecting) ==
  IF ~ignore_exceptions /\ \E i \in DOMAIN v.subtrees : v.subtrees[i] = "fail"
    THEN [raised |-> TRUE, nodes |-> <<>>]
    ELSE [raised |-> FALSE,
          nodes |-> [i \in DOMAIN v.subtrees |->
                       NodeOf(v.subtrees[i], collecting)]]

\* value.__treescope_root_repr__(): the value's own representation; the
\* engine is not involved, so no subtree is wrapped in an error marker.
root_repr_method(v, collecting) ==
  IF v.raises
    THEN [raised |-> TRUE, nodes |-> <<>>]
    ELSE [raised |-> FALSE,
          nodes |-> [i \in DOMAIN v.subtrees |->
                       IF v.subtrees[i] = "defer" /\ collecting
                         THEN "placeholder" ELSE "rendered"]]

\* lowering.collecting_deferred_renderings(): the placeholders created while
\* the collection was open.
Placeholders(nodes) == {i \in DOMAIN nodes : nodes[i] = "placeholder"}

\* Variant: the skeleton is not emitted by the call but left for later.
display_streaming_as_root_EmitsLater(args) ==
  [placeholders |-> Placeholders(args.root),
   pending |-> args.deferreds,
   updates |-> [i \in Placeholders(args.root) |-> 0],
   failed |-> {},
   stealable |-> args.stealable,
   emissions |-> 0,
   relocations |-> 0,
   detached |-> FALSE]

\* lowering.display_streaming_as_root(root, deferreds, roundtrip, compressed,
\* stealable): emits the skeleton at once and returns a handle on it.
display_streaming_as_root(args) ==
  [placeholders |-> Placeholders(args.root),
   pending |-> args.deferreds,
   updates |-> [i \in Placeholders(args.root) |-> 0],
   failed |-> {},
   stealable |-> args.stealable,
   emissions |-> 1,
   relocations |-> 0,
   detached |-> FALSE]

\* --------------------------------------------------- _render_for_ipython
\* Variant: the treescope root hook is given precedence over _repr_html_.
ShouldDefer_UnlessRootRepr(v) ==
  safely_get_real_method(v, "_repr_html_")
    /\ ~safely_get_real_method(v, "__treescope_root_repr__")

\* line 145-148: the value brings its own _repr_html_.
ShouldDefer(v) == safely_get_real_method(v, "_repr_html_")

\* Variant: the treescope hooks are not consulted.
ShouldSuppress_IgnoringHooks(v) ==
  v.disp \/ safely_get_real_method(v, "_repr_pretty_")

\* line 150-160: display objects, and values with a _repr_pretty_ but no
\* treescope hook, are not rendered to HTML.
ShouldSuppress(v) ==
  \/ v.disp
  \/ /\ safely_get_real_method(v, "_repr_pretty_")
     /\ ~(\/ safely_get_real_method(v, "__treescope_repr__")
          \/ safely_get_real_method(v, "__treescope_root_repr__"))

\* Variant: the root hook is passed over when the value can pretty-print.
UsesRootRepr_UnlessPretty(v) ==
  /\ safely_get_real_method(v, "__treescope_root_repr__")
  /\ ~safely_get_real_method(v, "_repr_pretty_")

\* line 175-178: the root representation comes from the value itself.
UsesRootRepr(v) == safely_get_real_method(v, "__treescope_root_repr__")

\* Variant: the engine's default, ignore_exceptions=False.
EngineIgnoreExceptions_Default == FALSE

\* line 183: the engine is always asked to tolerate subtree failures.
EngineIgnoreExceptions == TRUE

\* Variant: stealable left at the pipeline's default.
StreamingArgs_NotStealable(ir, deferreds) ==
  [root |-> ir, deferreds |-> deferreds, roundtrip |-> FALSE,
   stealable |-> FALSE]

\* Variant: the collected placeholders are not handed over.
StreamingArgs_NoDeferreds(ir, deferreds) ==
  [root |-> ir, deferreds |-> {}, roundtrip |-> FALSE,
   stealable |-> TRUE]

\* line 187-193: the arguments of the streaming emission (compress_html only
\* selects the encoding of the serialized bytes and is left out).
StreamingArgs(ir, deferreds) ==
  [root |-> ir, deferreds |-> deferreds, roundtrip |-> FALSE,
   stealable |-> TRUE]

NoArgs == [root |-> <<>>, deferreds |-> {}, roundtrip |-> FALSE,
           stealable |-> FALSE]

EngineEvent(ignore_exceptions) ==
  IF ignore_exceptions THEN "engine:tolerant" ELSE "engine:strict"

\* line 175-185: build the representation inside the ExitStack.
BuildIR(v, collecting) ==
  IF UsesRootRepr(v)
    THEN [ev |-> <<"root_repr">>, ir |-> root_repr_method(v, collecting)]
    ELSE [ev |-> <<EngineEvent(EngineIgnoreExceptions)>>,
          ir |-> build_foldable_representation(
                   v, EngineIgnoreExceptions, collecting)]

\* Variant: the collection is closed by hand after the emission, so an
\* exception leaves it open.
RenderBranch_LeaksOnRaise(v, streaming, emits) ==
  LET open == IF streaming THEN <<"open_collect">> ELSE <<>>
      close == IF streaming THEN <<"close_collect">> ELSE <<>>
      b == BuildIR(v, streaming)
  IN IF b.ir.raised
       THEN [branch |-> "render", trace |-> open \o b.ev,
             result |-> "raised", emit |-> FALSE, nodes |-> <<>>,
             args |-> NoArgs]
       ELSE IF streaming /\ ~emits
         THEN [branch |-> "render",
               trace |-> open \o b.ev \o <<"emit_raised">>,
               result |-> "raised", emit |-> FALSE, nodes |-> <<>>,
               args |-> NoArgs]
       ELSE IF streaming
         THEN [branch |-> "render",
               trace |-> open \o b.ev \o <<"emit">> \o close,
               result |-> "handle", emit |-> TRUE, nodes |-> b.ir.nodes,
               args |-> StreamingArgs(b.ir.nodes,
                                      Placeholders(b.ir.nodes))]
         ELSE [branch |-> "render",
               trace |-> b.ev \o <<"finish">>,
               result |-> "document", emit |-> FALSE, nodes |-> b.ir.nodes,
               args |-> NoArgs]

\* line 164-206: the render branch.  The ExitStack closes the collection
\* after the return expression has been evaluated and on every exception,
\* whether raised by the value's root representation or by the streaming
\* emission (emits is whether lowering's emission call returns normally).
RenderBranch(v, streaming, emits) ==
  LET open == IF streaming THEN <<"open_collect">> ELSE <<>>
      close == IF streaming THEN <<"close_collect">> ELSE <<>>
      b == BuildIR(v, streaming)
  IN IF b.ir.raised
       THEN [branch |-> "render", trace |-> open \o b.ev \o close,
             result |-> "raised", emit |-> FALSE, nodes |-> <<>>,
             args |-> NoArgs]
       ELSE IF streaming /\ ~emits
         THEN [branch |-> "render",
               trace |-> open \o b.ev \o <<"emit_raised">> \o close,
               result |-> "raised", emit |-> FALSE, nodes |-> <<>>,
               args |-> NoArgs]
       ELSE IF streaming
         THEN [branch |-> "render",
               trace |-> open \o b.ev \o <<"emit">> \o close,
               result |-> "handle", emit |-> TRUE, nodes |-> b.ir.nodes,
               args |-> StreamingArgs(b.ir.nodes,
                                      Placeholders(b.ir.nodes))]
         ELSE [branch |-> "render",
               trace |-> b.ev \o <<"finish">>,
               result |-> "document", emit |-> FALSE, nodes |-> b.ir.nodes,
               args |-> NoArgs]

\* Variant: the method is looked up but its result is computed twice.
DeferBranch_CallsTwice(v) ==
  [branch |-> "defer", trace |-> <<"html_method", "html_method">>,
   result |-> IF v.raises THEN "raised" ELSE "native_html",
   emit |-> FALSE, nodes |-> <<>>, args |-> NoArgs]

\* line 148-149: defer to the value's own _repr_html_: call it and return
\* what it returns.
DeferBranch(v) ==
  [branch |-> "defer", trace |-> <<"html_method">>,
   result |-> IF v.raises THEN "raised" ELSE "native_html",
   emit |-> FALSE, nodes |-> <<>>, args |-> NoArgs]

\* line 161-162: don't render this to HTML.
SuppressBranch(v) ==
  [branch |-> "suppress", trace |-> <<>>, result |-> "none",
   emit |-> FALSE, nodes |-> <<>>, args |-> NoArgs]

\* line 144-206: one invocation of the policy on one value.
Dispatch(v, streaming, emits) ==
  IF ShouldDefer(v)
    THEN DeferBranch(v)
    ELSE IF ShouldSuppress(v)
      THEN SuppressBranch(v)
      ELSE RenderBranch(v, streaming, emits)

NoValue == [html |-> FALSE, pretty |-> FALSE, root |-> FALSE, sub |-> FALSE,
            disp |-> FALSE, raises |-> FALSE, subtrees |-> <<>>]

NoOut == [set |-> FALSE, v |-> NoValue, streaming |-> FALSE,
          branch |-> "idle", trace |-> <<>>, result |-> "none",
          nodes |-> <<>>, frag |-> 0]


\* ------------------------------------------------ treescope.context
\* ContextualValue: a permanent value and a stack of scoped overrides.
Visualizers == {"ArrayViz", "None"}
NoOpViz == "NoOp"    \* line 321: lambda value, path: None

ContextNames == {"active", "default"}

Get(c) == IF c.stack = <<>> THEN c.perm ELSE c.stack[Len(c.stack)]

PushScoped(c, v) == [c EXCEPT !.stack = Append(@, v)]

PopScoped(c) == [c EXCEPT !.stack = SubSeq(@, 1, Len(@) - 1)]

\* Variant: a permanent replacement also drops the active overrides.
SetGlobally_ClearsStack(c, v) == [perm |-> v, stack |-> <<>>]

SetGlobally(c, v) == [c EXCEPT !.perm = v]

\* ------------------------------------------------------------ host table
MimeKeys == {"text/html", "text/plain", "image/png"}

Orders == {o \in [1..Cardinality(MimeKeys) -> MimeKeys] :
             \A i, j \in DOMAIN o : i # j => o[i] # o[j]}

NoPolicy == [registered |-> FALSE, streaming |-> FALSE]

NoCall == [name |-> "none", error |-> "none"]

HostUnavailable == "RuntimeError"

\* ------------------------------------------------------------------ Init
\* line 30-37 (IPython importable or not), line 253-259 (the default magic
\* autovisualizer starts as an ArrayAutovisualizer), nothing registered.
DefaultOrder == <<"text/plain", "text/html", "image/png">>

Init ==
  /\ host \in BOOLEAN
  /\ formatters \in Orders
  /\ policy = NoPolicy
  /\ textByName = FALSE
  /\ magics = {}
  /\ ctx = [active |-> [perm |-> "None", stack |-> <<>>],
            default |-> [perm |-> "ArrayViz", stack |-> <<>>]]
  /\ frames = <<>>
  /\ out = NoOut
  /\ fragments = <<>>
  /\ call = NoCall


\* ---------------------------------------------------------- entry points
\* Variant: the other entries are re-inserted in reverse order.
Reordered_Reversed(fs) ==
  LET rest == SelectSeq(fs, LAMBDA k : k # "text/html")
  IN <<"text/html">> \o [i \in 1..Len(rest) |-> rest[Len(rest) + 1 - i]]

\* line 230-235: rebuild the table with text/html first, the other entries
\* in their previous order.
Reordered(fs) ==
  <<"text/html">> \o SelectSeq(fs, LAMBDA k : k # "text/html")

\* What every host-requiring entry point does when IPython is missing
\* (line 58-59, 86-87, 139-140, 372-375, 388-391): raise, touch nothing.
RaiseHostUnavailable(name) ==
  /\ call' = [name |-> name, error |-> HostUnavailable]
  /\ out' = NoOut
  /\ UNCHANGED <<host, formatters, policy, textByName, magics, ctx, frames,
                 fragments>>

\* line 40-69: display(value, ignore_exceptions, roundtrip_mode).
display(v, ignore_exceptions) ==
  IF ~host
    THEN RaiseHostUnavailable("display")
    ELSE /\ call' = [name |-> "display",
                     error |-> IF build_foldable_representation(
                                    v, ignore_exceptions, FALSE).raised
                                 THEN "RenderError" ELSE "none"]
         /\ out' = NoOut
         /\ UNCHANGED <<host, formatters, policy, textByName, magics, ctx,
                        frames, fragments>>

\* line 72-94: show(*args, wrap, space_separated).
show ==
  IF ~host
    THEN RaiseHostUnavailable("show")
    ELSE /\ call' = [name |-> "show", error |-> "none"]
         /\ out' = NoOut
         /\ UNCHANGED <<host, formatters, policy, textByName, magics, ctx,
                        frames, fragments>>

\* line 97-250: register_as_default(streaming, compress_html).
register_as_default(streaming) ==
  IF ~host
    THEN RaiseHostUnavailable("register_as_default")
    ELSE /\ policy' = [registered |-> TRUE, streaming |-> streaming]
         /\ textByName' = TRUE
         /\ formatters' = Reordered(formatters)
         /\ call' = [name |-> "register_as_default", error |-> "none"]
         /\ out' = NoOut
         /\ UNCHANGED <<host, magics, ctx, frames, fragments>>

\* line 363-376: register_autovisualize_magic().
register_autovisualize_magic ==
  IF ~host
    THEN RaiseHostUnavailable("register_autovisualize_magic")
    ELSE /\ magics' = magics \cup {"AutovisualizerMagic"}
         /\ call' = [name |-> "register_autovisualize_magic",
                     error |-> "none"]
         /\ out' = NoOut
         /\ UNCHANGED <<host, formatters, policy, textByName, ctx, frames,
                        fragments>>

\* line 379-392: register_context_manager_magic().
register_context_manager_magic ==
  IF ~host
    THEN RaiseHostUnavailable("register_context_manager_magic")
    ELSE /\ magics' = magics \cup {"ContextManagerMagic"}
         /\ call' = [name |-> "register_context_manager_magic",
                     error |-> "none"]
         /\ out' = NoOut
         /\ UNCHANGED <<host, formatters, policy, textByName, ctx, frames,
                        fragments>>

\* Variant: the global autovisualizer is installed before the registrations.
basic_interactive_setup_InstallsFirst(autovisualize_arrays) ==
  /\ ctx' = IF autovisualize_arrays
              THEN [ctx EXCEPT !.active = SetGlobally(@, "ArrayViz")]
              ELSE ctx
  /\ policy' = IF host THEN [registered |-> TRUE, streaming |-> TRUE]
                       ELSE policy
  /\ textByName' = (host \/ textByName)
  /\ formatters' = IF host THEN Reordered(formatters) ELSE formatters
  /\ magics' = IF host
                 THEN magics \cup {"AutovisualizerMagic",
                                   "ContextManagerMagic"}
                 ELSE magics
  /\ frames' = [i \in DOMAIN frames |->
                 [frames[i] EXCEPT !.dirty = @ \/ autovisualize_arrays]]
  /\ call' = [name |-> "basic_interactive_setup",
              error |-> IF host THEN "none" ELSE HostUnavailable]
  /\ out' = NoOut
  /\ UNCHANGED <<host, fragments>>

\* line 395-417: basic_interactive_setup(autovisualize_arrays).  The first
\* call, register_as_default(), raises when IPython is missing, so nothing
\* after it runs.
basic_interactive_setup(autovisualize_arrays) ==
  IF ~host
    THEN RaiseHostUnavailable("basic_interactive_setup")
    ELSE /\ policy' = [registered |-> TRUE, streaming |-> TRUE]
         /\ textByName' = TRUE
         /\ formatters' = Reordered(formatters)
         /\ magics' = magics \cup {"AutovisualizerMagic",
                                   "ContextManagerMagic"}
         /\ ctx' = IF autovisualize_arrays
                     THEN [ctx EXCEPT
                             !.active = SetGlobally(@, "ArrayViz")]
                     ELSE ctx
         /\ frames' = [i \in DOMAIN frames |->
                        [frames[i] EXCEPT
                           !.dirty = @ \/ autovisualize_arrays]]
         /\ call' = [name |-> "basic_interactive_setup", error |-> "none"]
         /\ out' = NoOut
         /\ UNCHANGED <<host, fragments>>

\* User code calling ContextualValue.set_globally directly (treescope.context
\* does not need IPython).
set_globally(name, v) ==
  /\ ctx' = [ctx EXCEPT ![name] = SetGlobally(@, v)]
  /\ frames' = [i \in DOMAIN frames |-> [frames[i] EXCEPT !.dirty = TRUE]]
  /\ call' = NoCall
  /\ out' = NoOut
  /\ UNCHANGED <<host, formatters, policy, textByName, magics, fragments>>

\* treescope.context: the snapshot of the context values a deferred leaf is
\* created under, kept with the fragment; no producer has run yet.
Scheduled(frag, c) ==
  [placeholders |-> frag.placeholders,
   pending |-> frag.pending,
   updates |-> frag.updates,
   failed |-> frag.failed,
   stealable |-> frag.stealable,
   emissions |-> frag.emissions,
   relocations |-> frag.relocations,
   detached |-> frag.detached,
   snapshot |-> [active |-> Get(c.active), default |-> Get(c.default)],
   observed |-> [i \in frag.placeholders |-> "unseen"]]

\* Variant: a producer reads the context values as they are when it runs.
ProducerView_Live(frag, c) == Get(c.active)

\* treescope.context: the snapshot is restored around the producer, which
\* therefore reads the active autovisualizer of the snapshot.
ProducerView(frag, c) == frag.snapshot.active

\* ------------------------------------------------------- the policy runs
\* line 144-206: the host formats one value with the registered policy;
\* emits is whether the streaming emission, if reached, returns normally.
RenderForIpython(v, emits) ==
  LET d == Dispatch(v, policy.streaming, emits)
  IN /\ host
     /\ policy.registered
     /\ ~out.set
     /\ d.emit => Len(fragments) < MaxFragments
     /\ out' = [set |-> TRUE, v |-> v, streaming |-> policy.streaming,
                branch |-> d.branch, trace |-> d.trace,
                result |-> d.result, nodes |-> d.nodes,
                frag |-> IF d.emit THEN Len(fragments) + 1 ELSE 0]
     /\ fragments' = IF d.emit
                       THEN Append(fragments,
                                   Scheduled(
                                     display_streaming_as_root(d.args), ctx))
                       ELSE fragments
     /\ UNCHANGED <<host, formatters, policy, textByName, magics, ctx,
                    frames, call>>

\* The host takes what the policy returned for the value it is formatting.
HostReceives ==
  /\ out.set
  /\ out' = NoOut
  /\ UNCHANGED <<host, formatters, policy, textByName, magics, ctx, frames,
                 fragments, call>>

\* Variant: every display relocates the fragment, stolen or not.
DisplayHandle_RelocatesAgain(f) ==
  /\ f \in DOMAIN fragments
  /\ fragments' =
       [fragments EXCEPT ![f] =
          [@ EXCEPT !.stealable = FALSE, !.relocations = @ + 1]]
  /\ call' = [name |-> "display_handle",
              error |-> IF fragments[f].stealable
                          THEN "relocated" ELSE "inert"]
  /\ out' = NoOut
  /\ UNCHANGED <<host, formatters, policy, textByName, magics, ctx, frames>>

\* The host displays the handle the policy returned: a stealable handle
\* relocates the emitted fragment once, any other display is inert.
DisplayHandle(f) ==
  /\ f \in DOMAIN fragments
  /\ fragments' =
       [fragments EXCEPT ![f] =
          IF @.stealable
            THEN [@ EXCEPT !.stealable = FALSE, !.relocations = @ + 1]
            ELSE @]
  /\ call' = [name |-> "display_handle",
              error |-> IF fragments[f].stealable
                          THEN "relocated" ELSE "inert"]
  /\ out' = NoOut
  /\ UNCHANGED <<host, formatters, policy, textByName, magics, ctx, frames>>

\* Variant: a failing producer ends the resolution of the whole fragment.
ResolveLeaf_FailureAbortsSiblings(f, i, ok) ==
  /\ f \in DOMAIN fragments
  /\ i \in fragments[f].pending
  /\ i \in fragments[f].placeholders
  /\ fragments' =
       [fragments EXCEPT ![f] =
          IF @.detached
            THEN [@ EXCEPT !.pending = @ \ {i}]
            ELSE IF ok
              THEN [@ EXCEPT !.pending = @ \ {i}, !.updates[i] = @ + 1,
                             !.observed[i] = ProducerView(fragments[f], ctx)]
              ELSE [@ EXCEPT !.pending = {}, !.updates[i] = @ + 1,
                             !.observed[i] = ProducerView(fragments[f], ctx),
                             !.failed = @ \cup {i}]]
  /\ out' = NoOut
  /\ UNCHANGED <<host, formatters, policy, textByName, magics, ctx, frames,
                 call>>

\* Streaming pipeline, step 2-3: one pending placeholder's producer runs and
\* its update is delivered, unless the fragment was detached meanwhile.  A
\* failing producer is delivered as an error marker for that leaf.
ResolveLeaf(f, i, ok) ==
  /\ f \in DOMAIN fragments
  /\ i \in fragments[f].pending
  /\ i \in fragments[f].placeholders
  /\ fragments' =
       [fragments EXCEPT ![f] =
          IF @.detached
            THEN [@ EXCEPT !.pending = @ \ {i}]
            ELSE [@ EXCEPT !.pending = @ \ {i},
                           !.updates[i] = @ + 1,
                           !.observed[i] = ProducerView(fragments[f], ctx),
                           !.failed = IF ok THEN @ ELSE @ \cup {i}]]
  /\ out' = NoOut
  /\ UNCHANGED <<host, formatters, policy, textByName, magics, ctx, frames,
                 call>>

\* Streaming pipeline, step 4: the output holding the fragment is cleared.
ClearOutput(f) ==
  /\ f \in DOMAIN fragments
  /\ ~fragments[f].detached
  /\ fragments' = [fragments EXCEPT ![f].detached = TRUE]
  /\ out' = NoOut
  /\ UNCHANGED <<host, formatters, policy, textByName, magics, ctx, frames,
                 call>>


\* ------------------------------------------------------------ cell magics
\* A running cell magic: which command, what its line was, which context
\* value its `with` statement pushed on (none for a foreign context
\* manager) and the value it installed.  `pre` and `dirty` remember what
\* get() returned when the cell started and whether set_globally ran since.
Outcomes == {"completed", "raised", "early_exit"}

EvalResults == Visualizers \cup {"raise"}

ContextManagers ==
  [target : ContextNames, val : Visualizers]
    \cup {[target |-> "none", val |-> "None"],
          [target |-> "raise", val |-> "None"]}

Snapshot(c) == [active |-> Get(c.active), default |-> Get(c.default)]

\* Variant: a None autovisualizer is installed as it is.
Autovisualizer_KeepsNone(line, evaluated, c) ==
  IF line = "expr" THEN evaluated ELSE Get(c.default)

\* Variant: the fallback reads the active autovisualizer, not the default.
Autovisualizer_FromActive(line, evaluated, c) ==
  LET a == IF line = "expr" THEN evaluated ELSE Get(c.active)
  IN IF a = "None" THEN NoOpViz ELSE a

\* line 314-321: the autovisualizer the cell runs under.
Autovisualizer(line, evaluated, c) ==
  LET a == IF line = "expr" THEN evaluated ELSE Get(c.default)
  IN IF a = "None" THEN NoOpViz ELSE a

\* Variant: the override goes on the default-autovisualizer context value.
EnterScope_OnDefault(c, target, v) ==
  IF target \in ContextNames
    THEN [c EXCEPT !["default"] = PushScoped(@, v)]
    ELSE c

\* line 322 and 355: entering the `with` statement.
EnterScope(c, target, v) ==
  IF target \in ContextNames
    THEN [c EXCEPT ![target] = PushScoped(@, v)]
    ELSE c

\* Variant: the scope is only left when the body completes normally.
ExitScope_OnlyOnCompletion(c, target, outcome) ==
  IF target \in ContextNames /\ outcome = "completed"
    THEN [c EXCEPT ![target] = PopScoped(@)]
    ELSE c

\* line 322-323 and 355-356: leaving the `with` statement, however the
\* body ended.
ExitScope(c, target, outcome) ==
  IF target \in ContextNames
    THEN [c EXCEPT ![target] = PopScoped(@)]
    ELSE c

\* Variant: the no-op scope is entered before the line is evaluated and is
\* not left when the evaluation fails.
UserExpressionError_ScopeLeftOpen(name) ==
  /\ call' = [name |-> name, error |-> "expression_raised"]
  /\ ctx' = [ctx EXCEPT !.active = PushScoped(@, NoOpViz)]
  /\ out' = NoOut
  /\ UNCHANGED <<host, formatters, policy, textByName, magics, frames,
                 fragments>>

\* line 316 and 354: self.shell.ev(line) raises; nothing catches it and the
\* `with` statement is never reached.
UserExpressionError(name) ==
  /\ call' = [name |-> name, error |-> "expression_raised"]
  /\ out' = NoOut
  /\ UNCHANGED <<host, formatters, policy, textByName, magics, ctx, frames,
                 fragments>>

\* line 269-323, up to the start of the cell body: %%autovisualize.
autovisualize(line, evaluated) ==
  /\ host
  /\ "AutovisualizerMagic" \in magics
  /\ Len(frames) < MaxDepth
  /\ line = "empty" => evaluated = "None"
  /\ IF line = "expr" /\ evaluated = "raise"
       THEN UserExpressionError("autovisualize")
       ELSE LET a == Autovisualizer(line, evaluated, ctx)
                arg == IF line = "expr" THEN evaluated ELSE Get(ctx.default)
            IN /\ ctx' = EnterScope(ctx, "active", a)
               /\ frames' = Append(frames,
                    [kind |-> "autovisualize", line |-> line,
                     target |-> "active", arg |-> arg, installed |-> a,
                     pre |-> Snapshot(ctx), dirty |-> FALSE])
               /\ call' = [name |-> "autovisualize", error |-> "none"]
               /\ out' = NoOut
               /\ UNCHANGED <<host, formatters, policy, textByName, magics,
                              fragments>>

\* line 330-356, up to the start of the cell body: %%with.
with_(cm) ==
  /\ host
  /\ "ContextManagerMagic" \in magics
  /\ Len(frames) < MaxDepth
  /\ IF cm.target = "raise"
       THEN UserExpressionError("with")
       ELSE /\ ctx' = EnterScope(ctx, cm.target, cm.val)
            /\ frames' = Append(frames,
                 [kind |-> "with", line |-> "expr", target |-> cm.target,
                  arg |-> cm.val, installed |-> cm.val,
                  pre |-> Snapshot(ctx),
                  dirty |-> FALSE])
            /\ call' = [name |-> "with", error |-> "none"]
            /\ out' = NoOut
            /\ UNCHANGED <<host, formatters, policy, textByName, magics,
                           fragments>>

\* line 322-323 and 355-356: the cell body of the innermost running magic
\* finishes (normally, with an error, or by an early exit) and its `with`
\* statement is left.
CellExit(outcome) ==
  /\ frames # <<>>
  /\ LET top == frames[Len(frames)]
     IN /\ ctx' = ExitScope(ctx, top.target, outcome)
        /\ frames' = SubSeq(frames, 1, Len(frames) - 1)
        /\ call' = [name |-> top.kind, error |-> outcome]
  /\ out' = NoOut
  /\ UNCHANGED <<host, formatters, policy, textByName, magics, fragments>>

\* ------------------------------------------------------- specifications
EntryPoints ==
  \/ \E v \in PlainValues, ie \in BOOLEAN : display(v, ie)
  \/ show
  \/ \E s \in BOOLEAN : register_as_default(s)
  \/ register_autovisualize_magic
  \/ register_context_manager_magic
  \/ \E a \in BOOLEAN : basic_interactive_setup(a)

UserCode ==
  \E n \in ContextNames, v \in Visualizers : set_globally(n, v)

Magics ==
  \/ \E l \in {"empty", "expr"}, e \in EvalResults : autovisualize(l, e)
  \/ \E cm \in ContextManagers : with_(cm)
  \/ \E o \in Outcomes : CellExit(o)

Policy ==
  \/ \E v \in Values, e \in BOOLEAN : RenderForIpython(v, e)
  \/ HostReceives
  \/ \E f \in 1..MaxFragments : DisplayHandle(f)

Pipeline ==
  \/ \E f \in 1..MaxFragments, i \in 1..MaxLeaves, ok \in BOOLEAN :
       ResolveLeaf(f, i, ok)
  \/ \E f \in 1..MaxFragments : ClearOutput(f)

Next == EntryPoints \/ UserCode \/ Magics \/ Policy \/ Pipeline

Spec == Init /\ [][Next]_vars

\* The host's table in IPython's own order (the order only matters to the
\* entry points).
InitDefaultOrder == Init /\ formatters = DefaultOrder


\* The entry points alone, with or without a host.
SetupSpec == Init /\ [][EntryPoints \/ UserCode]_vars

\* The installed policy applied to every kind of value.
PolicyNext ==
  \/ \E s \in BOOLEAN : register_as_default(s)
  \/ \E v \in Values : RenderForIpython(v, TRUE)
  \/ HostReceives

PolicySpec == InitDefaultOrder /\ [][PolicyNext]_vars

\* The installed policy applied to every kind of value, the streaming
\* emission returning or raising.
CollectionNext ==
  \/ \E s \in BOOLEAN : register_as_default(s)
  \/ \E v \in Values, e \in BOOLEAN : RenderForIpython(v, e)
  \/ HostReceives

CollectionSpec == InitDefaultOrder /\ [][CollectionNext]_vars

\* The cell magics and the context values they push on.
ScopeNext ==
  \/ register_autovisualize_magic
  \/ register_context_manager_magic
  \/ UserCode
  \/ Magics

ScopeSpec == InitDefaultOrder /\ [][ScopeNext]_vars

\* Streaming of values without any capability under register_as_default()
\* with its default streaming=True: emission, relocation and the resolution
\* of the deferred leaves.
PipelineNext ==
  \/ register_as_default(TRUE)
  \/ \E v \in PlainValues : RenderForIpython(v, TRUE)
  \/ HostReceives
  \/ \E f \in 1..MaxFragments : DisplayHandle(f)
  \/ Pipeline

PipelineSpec == InitDefaultOrder /\ [][PipelineNext]_vars

\* Every scheduled producer eventually runs (producers are finite
\* computations and none blocks another).
PipelineFairness ==
  \A f \in 1..MaxFragments, i \in 1..MaxLeaves :
    WF_vars(\E ok \in BOOLEAN : ResolveLeaf(f, i, ok))

FairPipelineSpec == PipelineSpec /\ PipelineFairness

\* Values whose subtrees are all deferrable leaves.
DeferredValues ==
  {v \in PlainValues :
     /\ v.subtrees # <<>>
     /\ \A i \in DOMAIN v.subtrees : v.subtrees[i] = "defer"}

\* Streaming inside and after %%autovisualize cells: values are displayed
\* while a cell runs and their leaves are resolved at any later time.
SnapshotNext ==
  \/ register_as_default(TRUE)
  \/ register_autovisualize_magic
  \/ \E l \in {"empty", "expr"}, e \in EvalResults : autovisualize(l, e)
  \/ \E o \in Outcomes : CellExit(o)
  \/ \E v \in DeferredValues : RenderForIpython(v, TRUE)
  \/ \E f \in 1..MaxFragments, i \in 1..MaxLeaves : ResolveLeaf(f, i, TRUE)

SnapshotSpec == InitDefaultOrder /\ [][SnapshotNext]_vars


\* ----------------------------------------------------------- properties
Has(trace, e) == \E i \in DOMAIN trace : trace[i] = e

Count(trace, e) == Cardinality({i \in DOMAIN trace : trace[i] = e})

EngineInvoked(o) ==
  Has(o.trace, "engine:tolerant") \/ Has(o.trace, "engine:strict")

\* C1: for a value with its own _repr_html_, whatever else it offers and
\* whether streaming is on or off, one invocation of the policy never
\* invokes the rendering engine, never calls __treescope_root_repr__, never
\* opens the deferred-rendering collection and never starts a streaming
\* emission.
C1_NativeHtmlNeverRenders ==
  (out.set /\ out.v.html) =>
    /\ ~EngineInvoked(out)
    /\ ~Has(out.trace, "root_repr")
    /\ ~Has(out.trace, "open_collect")
    /\ ~Has(out.trace, "emit")
    /\ out.frag = 0

C1_Witness ==
  /\ out.set /\ out.streaming
  /\ out.v.html /\ out.v.pretty /\ out.v.root /\ out.v.sub /\ out.v.disp
  /\ Len(out.v.subtrees) = MaxLeaves

\* C2: for a value without _repr_html_, the policy suppresses custom
\* rendering (returns None, engine and streaming pipeline untouched)
\* exactly when the value is a DisplayObject, or has a _repr_pretty_ and
\* neither treescope hook; in every other case it takes the render path.
Suppressed(o) ==
  /\ o.result = "none"
  /\ o.trace = <<>>
  /\ o.frag = 0

Rendered(o) ==
  /\ o.branch = "render"
  /\ EngineInvoked(o) \/ Has(o.trace, "root_repr")

C2_SuppressExactlyWhen ==
  (out.set /\ ~out.v.html) =>
    LET cond == \/ out.v.disp
                \/ out.v.pretty /\ ~out.v.root /\ ~out.v.sub
    IN /\ Suppressed(out) <=> cond
       /\ ~cond => Rendered(out)

C2_Witness ==
  /\ out.set /\ ~out.v.html /\ ~out.v.disp
  /\ out.v.pretty /\ ~out.v.root /\ ~out.v.sub
  /\ Suppressed(out)

\* C3 as stated: for a value with its own _repr_html_ the policy returns no
\* output of its own and does not call the value's _repr_html_.
C3_Original ==
  (out.set /\ out.v.html) =>
    /\ out.result = "none"
    /\ ~Has(out.trace, "html_method")

\* C3 amended: for a value with its own _repr_html_ the policy does nothing
\* but call that method once, and returns what the method returns (or
\* raises what it raises).
C3_DefersByCallingNativeHtml ==
  (out.set /\ out.v.html) =>
    /\ out.branch = "defer"
    /\ out.trace = <<"html_method">>
    /\ out.result = IF out.v.raises THEN "raised" ELSE "native_html"
    /\ out.frag = 0

C3_Witness ==
  out.set /\ out.v.html /\ ~out.v.raises /\ out.result = "native_html"

\* C10: when the policy renders through the engine, the engine is asked to
\* tolerate subtree failures: a failing subtree becomes an inline error
\* marker, its siblings are rendered normally, and the invocation does not
\* raise.
C10_SubtreeFailuresTolerated ==
  (out.set /\ EngineInvoked(out)) =>
    /\ Has(out.trace, "engine:tolerant")
    /\ out.result # "raised"
    /\ DOMAIN out.nodes = DOMAIN out.v.subtrees
    /\ \A i \in DOMAIN out.v.subtrees :
         /\ out.v.subtrees[i] = "fail" <=> out.nodes[i] = "error"
         /\ out.v.subtrees[i] = "ok" => out.nodes[i] = "rendered"

C10_Witness ==
  /\ out.set /\ EngineInvoked(out)
  /\ out.v.subtrees = <<"fail", "ok">>
  /\ out.nodes = <<"error", "rendered">>
  /\ out.result \in {"handle", "document"}


\* C4: with streaming on, a value without capabilities is emitted once and
\* a stealable handle is returned; over any later displays of the handle
\* the fragment is relocated exactly once, by the first display, which
\* also clears the stealable flag, and a display of a handle that is not
\* stealable emits nothing and relocates nothing.
C4_HandleState ==
  /\ (out.set /\ out.v \in PlainValues /\ out.streaming) =>
       /\ out.result = "handle"
       /\ Count(out.trace, "emit") = 1
       /\ out.frag \in DOMAIN fragments
       /\ fragments[out.frag].stealable
       /\ fragments[out.frag].relocations = 0
  /\ \A f \in DOMAIN fragments :
       /\ fragments[f].emissions = 1
       /\ fragments[f].relocations = IF fragments[f].stealable THEN 0 ELSE 1

C4_DisplayStep ==
  (call' # call /\ call'.name = "display_handle") =>
    \E f \in DOMAIN fragments :
      IF fragments[f].stealable
        THEN /\ call'.error = "relocated"
             /\ fragments' = [fragments EXCEPT ![f].stealable = FALSE,
                                               ![f].relocations = 1]
        ELSE /\ call'.error = "inert"
             /\ fragments' = fragments

C4_InertStep ==
  \A f \in DOMAIN fragments :
    ~fragments[f].stealable =>
      /\ f \in DOMAIN fragments'
      /\ ~fragments'[f].stealable
      /\ fragments'[f].relocations = fragments[f].relocations
      /\ fragments'[f].emissions = fragments[f].emissions

C4_RelocatedExactlyOnce ==
  []C4_HandleState /\ [][C4_DisplayStep /\ C4_InertStep]_vars

C4_Witness ==
  /\ call = [name |-> "display_handle", error |-> "inert"]
  /\ \E f \in DOMAIN fragments :
       fragments[f].relocations = 1 /\ ~fragments[f].stealable

\* C5: after any nesting of scoped pushes and pops and of permanent
\* replacements, get() on a context value is the value installed by the
\* innermost cell still running that pushed on it, or the permanent value
\* when no such cell is running.
Pushers(n) == {i \in DOMAIN frames : frames[i].target = n}

Innermost(n) ==
  LET top == CHOOSE i \in Pushers(n) : \A j \in Pushers(n) : j <= i
  IN frames[top].installed

C5_StackDiscipline ==
  \A n \in ContextNames :
    Get(ctx[n]) = IF Pushers(n) = {} THEN ctx[n].perm ELSE Innermost(n)

C5_Witness ==
  /\ Len(frames) = 2
  /\ frames[1].kind = "autovisualize" /\ frames[2].kind = "autovisualize"
  /\ frames[1].installed # frames[2].installed
  /\ Get(ctx.active) = frames[2].installed
  /\ ctx.active.perm # frames[1].installed

\* C6: both commands leave the scope they entered however the cell body
\* ends, before returning: the overrides in place are exactly those of the
\* cells still running, so none is left once the commands have returned.
C6_ScopeAlwaysExited ==
  /\ \A n \in ContextNames : Len(ctx[n].stack) = Cardinality(Pushers(n))
  /\ frames = <<>> => \A n \in ContextNames : ctx[n].stack = <<>>

C6_Witness ==
  /\ frames = <<>>
  /\ call = [name |-> "with", error |-> "raised"]
  /\ \A n \in ContextNames : ctx[n].stack = <<>>

\* C7 as stated: %%autovisualize with an empty line installs the value the
\* default autovisualizer holds as the active autovisualizer, and after the
\* cell both context values return their pre-cell values unless the body
\* replaced them permanently.
EntersEmptyCell ==
  /\ Len(frames') = Len(frames) + 1
  /\ frames'[Len(frames')].kind = "autovisualize"
  /\ frames'[Len(frames')].line = "empty"

LeavesEmptyCell ==
  /\ frames # <<>>
  /\ Len(frames') = Len(frames) - 1
  /\ frames[Len(frames)].kind = "autovisualize"
  /\ frames[Len(frames)].line = "empty"
  /\ ~frames[Len(frames)].dirty

RestoredAfterCell ==
  LeavesEmptyCell => Snapshot(ctx') = frames[Len(frames)].pre

C7_Original ==
  [][/\ EntersEmptyCell =>
          /\ Get(ctx'.active) = Get(ctx.default)
          /\ Get(ctx'.default) = Get(ctx.default)
     /\ RestoredAfterCell]_vars

\* C7 amended: %%autovisualize with an empty line installs the value the
\* default autovisualizer holds, or the no-op visualizer when that value is
\* None, as the active autovisualizer for the cell body; after the cell
\* both context values return their pre-cell values unless the body
\* replaced them permanently.
C7_DefaultOrNoOpForTheCell ==
  [][/\ EntersEmptyCell =>
          /\ Get(ctx'.active) = IF Get(ctx.default) = "None"
                                  THEN NoOpViz ELSE Get(ctx.default)
          /\ Get(ctx'.default) = Get(ctx.default)
     /\ RestoredAfterCell]_vars

C7_Witness ==
  /\ Len(frames) = 1
  /\ frames[1].kind = "autovisualize" /\ frames[1].line = "empty"
  /\ frames[1].pre.default = "ArrayViz" /\ frames[1].pre.active = "None"
  /\ Get(ctx.active) = "ArrayViz"

\* C8: without a host every entry point raises the host-unavailable error
\* and changes nothing: no formatter registered or reordered, no magic
\* registered, no global autovisualizer installed.
EntryPointNames ==
  {"display", "show", "register_as_default", "register_autovisualize_magic",
   "register_context_manager_magic", "basic_interactive_setup"}

C8_HostUnavailableChangesNothing ==
  [][(~host /\ call'.name \in EntryPointNames) =>
       /\ call'.error = HostUnavailable
       /\ UNCHANGED <<formatters, policy, textByName, magics, ctx, frames,
                      fragments>>]_vars

C8_Witness ==
  /\ ~host
  /\ call = [name |-> "basic_interactive_setup", error |-> HostUnavailable]
  /\ ctx.active.perm = "None"
  /\ ~policy.registered /\ magics = {}

\* C9: every placeholder handed to the streaming pipeline is resolved once
\* and only once: unless the output is cleared, each of the N placeholders
\* of a fragment eventually receives its update, no placeholder receives
\* two and nothing else is updated.
AllDelivered(f) ==
  \A i \in fragments[f].placeholders : fragments[f].updates[i] = 1

C9_AtMostOnce ==
  \A f \in DOMAIN fragments :
    /\ \A i \in fragments[f].placeholders :
         /\ fragments[f].updates[i] <= 1
         /\ fragments[f].updates[i] = 1 => i \notin fragments[f].pending
    /\ fragments[f].pending \subseteq fragments[f].placeholders

C9_Settled(f) ==
  /\ f \in DOMAIN fragments
  /\ \/ fragments[f].detached
     \/ AllDelivered(f) /\ fragments[f].pending = {}

C9_ExactlyOnceResolution ==
  /\ []C9_AtMostOnce
  /\ \A f \in 1..MaxFragments : (f \in DOMAIN fragments) ~> C9_Settled(f)

C9_Witness ==
  \E f \in DOMAIN fragments :
    /\ ~fragments[f].detached
    /\ Cardinality(fragments[f].placeholders) = MaxLeaves
    /\ AllDelivered(f)
    /\ fragments[f].pending = {}


\* C11: when the expression on the command line of %%autovisualize or %%with
\* fails to evaluate, the error reaches the user as it is, the cell body is
\* not run and no scope is entered: the override stacks of both context
\* values are what they were before the command.
C11_FailedExpressionEntersNothing ==
  [][(call'.error = "expression_raised") =>
       /\ call'.name \in {"autovisualize", "with"}
       /\ ctx' = ctx
       /\ frames' = frames]_vars

C11_Witness ==
  /\ call = [name |-> "with", error |-> "expression_raised"]
  /\ Len(frames) = 1
  /\ ctx.active.stack # <<>>


\* A display of a handle whose fragment was already stolen: every emitted
\* fragment had been relocated before the step.
AllStolen ==
  /\ fragments # <<>>
  /\ \A f \in DOMAIN fragments : ~fragments[f].stealable

DisplayOfStolenHandle ==
  call' # call /\ call'.name = "display_handle" /\ AllStolen

C13_ReplacementStep ==
  \A n \in ContextNames :
    ctx'[n].perm # ctx[n].perm =>
      /\ ctx'[n].stack = ctx[n].stack
      /\ ctx[n].stack # <<>> =>
           /\ Get(ctx'[n]) = Get(ctx[n])
           /\ Pushers(n) # {}
           /\ Get(ctx'[n]) = Innermost(n)
      /\ ctx[n].stack = <<>> => Get(ctx'[n]) = ctx'[n].perm

C13_PopStep ==
  \A n \in ContextNames :
    Len(ctx'[n].stack) < Len(ctx[n].stack) =>
      /\ ctx'[n].perm = ctx[n].perm
      /\ ctx'[n].stack = <<>> => Get(ctx'[n]) = ctx[n].perm

C13_SetGloballyOnlyPermanent ==
  [][C13_ReplacementStep /\ C13_PopStep]_vars

C13_Witness ==
  /\ Len(frames) = 1
  /\ frames[1].target = "active" /\ frames[1].dirty
  /\ frames[1].installed = NoOpViz
  /\ frames[1].pre.active = "None"
  /\ ctx.active.perm = "ArrayViz"
  /\ Get(ctx.active) = NoOpViz


\* C14: in %%autovisualize, when the expression evaluates to None or the
\* default autovisualizer holds None, the no-op visualizer is installed as
\* the active autovisualizer for the cell body, instead of None or of the
\* visualizer active before; after the cell the previous value is back,
\* unless the body replaced it permanently.
NoneCells ==
  {i \in DOMAIN frames :
     frames[i].kind = "autovisualize" /\ frames[i].arg = "None"}

C14_NoOpInstalled ==
  /\ \A i \in DOMAIN frames :
       frames[i].kind = "autovisualize" =>
         /\ frames[i].installed # "None"
         /\ frames[i].line = "empty" => frames[i].arg = frames[i].pre.default
  /\ \A i \in NoneCells :
       /\ frames[i].installed = NoOpViz
       /\ i = Len(frames) => Get(ctx.active) = NoOpViz

C14_LeavesNoneCell ==
  (/\ Len(frames) \in NoneCells
   /\ Len(frames') = Len(frames) - 1
   /\ ~frames[Len(frames)].dirty) =>
     Get(ctx'.active) = frames[Len(frames)].pre.active

C14_NoOpVisualizerForNone ==
  []C14_NoOpInstalled /\ [][C14_LeavesNoneCell]_vars

C14_Witness ==
  /\ Len(frames) = 1
  /\ frames[1].kind = "autovisualize" /\ frames[1].line = "expr"
  /\ frames[1].arg = "None"
  /\ frames[1].pre.active = "ArrayViz"
  /\ Get(ctx.active) = NoOpViz


\* C15: for every streamed fragment the emission of the skeleton precedes
\* every leaf update of that fragment, in every interleaving: a fragment is
\* born emitted with no update delivered, and a step delivers an update only
\* to a fragment emitted before the step.  The updates of different leaves
\* are not ordered among themselves.
UpdatedBy(f, i) ==
  /\ fragments'[f].updates[i] > 0
  /\ f \in DOMAIN fragments => fragments[f].updates[i] < fragments'[f].updates[i]

C15_UpdateStep ==
  \A f \in DOMAIN fragments' :
    \A i \in fragments'[f].placeholders :
      UpdatedBy(f, i) =>
        /\ f \in DOMAIN fragments
        /\ fragments[f].emissions >= 1

C15_EmittedBeforeUpdated ==
  \A f \in DOMAIN fragments :
    \A i \in fragments[f].placeholders :
      fragments[f].updates[i] > 0 => fragments[f].emissions >= 1

C15_SkeletonPrecedesUpdates ==
  []C15_EmittedBeforeUpdated /\ [][C15_UpdateStep]_vars

C15_Witness ==
  \E f \in DOMAIN fragments :
    /\ {1, 2} \subseteq fragments[f].placeholders
    /\ fragments[f].emissions = 1
    /\ fragments[f].updates[2] = 1
    /\ fragments[f].updates[1] = 0 /\ 1 \in fragments[f].pending


\* C17: a failing producer is delivered as the error-marker update of its
\* own leaf: the skeleton stays emitted, the leaf counts as resolved once,
\* and every sibling placeholder keeps its own state, a pending sibling
\* staying pending for its own producer.
FailsAt(f, i) ==
  /\ f \in DOMAIN fragments
  /\ i \in fragments'[f].failed
  /\ i \notin fragments[f].failed

C17_FailureStep ==
  \A f \in DOMAIN fragments' :
    \A i \in fragments'[f].placeholders :
      FailsAt(f, i) =>
        /\ fragments' = [fragments EXCEPT
                           ![f].pending = @ \ {i},
                           ![f].updates[i] = 1,
                           ![f].observed[i] = fragments[f].snapshot.active,
                           ![f].failed = @ \cup {i}]
        /\ i \in fragments[f].pending
        /\ fragments[f].updates[i] = 0

C17_FailedLeaves ==
  \A f \in DOMAIN fragments :
    /\ fragments[f].failed \subseteq fragments[f].placeholders
    /\ fragments[f].failed # {} => fragments[f].emissions = 1
    /\ \A i \in fragments[f].failed :
         /\ fragments[f].updates[i] = 1
         /\ i \notin fragments[f].pending

C17_FailureStaysInItsLeaf ==
  []C17_FailedLeaves /\ [][C17_FailureStep]_vars

C17_Witness ==
  \E f \in DOMAIN fragments :
    /\ ~fragments[f].detached
    /\ fragments[f].placeholders = {1, 2}
    /\ fragments[f].failed = {1}
    /\ fragments[f].updates[1] = 1 /\ fragments[f].updates[2] = 1
    /\ fragments[f].pending = {}
    /\ fragments[f].emissions = 1


\* C16: a deferred leaf's producer observes the context values as they were
\* when its placeholder was created, not as they are when it runs, even
\* when the main chain entered or left scopes in between: a fragment is
\* created with the snapshot of that moment, the snapshot never changes,
\* and every producer that ran observed its active autovisualizer.
C16_CreationStep ==
  /\ \A f \in DOMAIN fragments :
       /\ f \in DOMAIN fragments'
       /\ fragments'[f].snapshot = fragments[f].snapshot
  /\ \A f \in DOMAIN fragments' \ DOMAIN fragments :
       /\ fragments'[f].snapshot = Snapshot(ctx)
       /\ \A i \in fragments'[f].placeholders :
            fragments'[f].observed[i] = "unseen"

C16_ObservedIsSnapshot ==
  \A f \in DOMAIN fragments :
    \A i \in fragments[f].placeholders :
      IF fragments[f].updates[i] > 0
        THEN fragments[f].observed[i] = fragments[f].snapshot.active
        ELSE fragments[f].observed[i] = "unseen"

C16_ProducersSeeCreationSnapshot ==
  []C16_ObservedIsSnapshot /\ [][C16_CreationStep]_vars

C16_Witness ==
  /\ frames = <<>>
  /\ Get(ctx.active) = "None"
  /\ call = [name |-> "autovisualize", error |-> "completed"]
  /\ \E f \in DOMAIN fragments :
       /\ fragments[f].snapshot.active = "ArrayViz"
       /\ \E i \in fragments[f].placeholders :
            /\ fragments[f].updates[i] = 1
            /\ fragments[f].observed[i] = "ArrayViz"
       /\ \E i \in fragments[f].placeholders : i \in fragments[f].pending


\* C18: after the policy is installed the formatter table has text/html
\* first, holds the same categories as before and keeps the other entries
\* in their previous relative order; installing the policy again leaves the
\* table, and with the same arguments the whole registration, as one
\* installation left it.
Pos(fs, k) == CHOOSE i \in DOMAIN fs : fs[i] = k

Installs ==
  /\ host
  /\ call'.name \in {"register_as_default", "basic_interactive_setup"}

C18_InstallStep ==
  Installs =>
    /\ policy'.registered
    /\ formatters'[1] = "text/html"
    /\ Len(formatters') = Len(formatters)
    /\ {formatters'[i] : i \in DOMAIN formatters'}
         = {formatters[i] : i \in DOMAIN formatters}
    /\ \A a, b \in MimeKeys \ {"text/html"} :
         (Pos(formatters', a) < Pos(formatters', b))
           <=> (Pos(formatters, a) < Pos(formatters, b))
    /\ policy.registered => formatters' = formatters
    /\ (policy.registered /\ policy'.streaming = policy.streaming) =>
         /\ policy' = policy
         /\ textByName' = textByName

C18_HtmlFirstOrderKept == [][C18_InstallStep]_vars

C18_Witness ==
  /\ host /\ policy.registered
  /\ call = [name |-> "register_as_default", error |-> "none"]
  /\ formatters = <<"text/html", "image/png", "text/plain">>


\* Where the representation of a rendered value came from.
FromRootRepr(o) ==
  Count(o.trace, "root_repr") = 1 /\ ~EngineInvoked(o)

FromEngine(o) ==
  /\ ~Has(o.trace, "root_repr")
  /\ Count(o.trace, "engine:tolerant") + Count(o.trace, "engine:strict") = 1

C19_Source ==
  (out.set /\ out.branch = "render") =>
    IF out.v.root THEN FromRootRepr(out) ELSE FromEngine(out)

StreamedOnce(o) ==
  /\ Count(o.trace, "emit") = 1
  /\ o.result = "handle"
  /\ o.frag \in DOMAIN fragments

FinishedDocument(o) ==
  /\ ~Has(o.trace, "emit")
  /\ ~Has(o.trace, "open_collect")
  /\ Placeholders(o.nodes) = {}
  /\ o.result = "document"
  /\ o.frag = 0

BuildEvents == {"root_repr", "engine:tolerant", "engine:strict"}

C20_CollectionBracketsTheRender ==
  out.set =>
    IF out.branch = "render" /\ out.streaming
      THEN /\ Len(out.trace) >= 3
           /\ out.trace[1] = "open_collect"
           /\ out.trace[2] \in BuildEvents
           /\ out.trace[Len(out.trace)] = "close_collect"
           /\ Count(out.trace, "open_collect") = 1
           /\ Count(out.trace, "close_collect") = 1
           /\ out.result = "handle" =>
                out.trace[Len(out.trace) - 1] = "emit"
      ELSE /\ ~Has(out.trace, "open_collect")
           /\ ~Has(out.trace, "close_collect")

C20_Witness ==
  /\ out.set /\ out.streaming /\ out.result = "raised"
  /\ out.trace = <<"open_collect", "engine:tolerant", "emit_raised",
                   "close_collect">>

C20_WitnessRootRaises ==
  /\ out.set /\ out.streaming /\ out.result = "raised"
  /\ out.trace = <<"open_collect", "root_repr", "close_collect">>

====
